---- MODULE Spec2Model ----
(***************************************************************************)
(* A model of the CoreViz command-line client (bin/cli.js).                *)
(*                                                                         *)
(* Persistent state: the credential record kept by Conf under the key      *)
(* 'session', the per-directory SQLite table `images` of .index.db, and    *)
(* the working directory itself.  Each command invocation is one process: *)
(* `cmd` names the command, `pc` the await point the process is suspended  *)
(* at, `exitCode` the status it ended with.                                *)
(*                                                                         *)
(* Time is counted in whole seconds; setTimeout(f, s * 1000) is a timer    *)
(* that is due s seconds after it was armed and never fires before it is   *)
(* due.                                                                    *)
(***************************************************************************)
EXTENDS Integers, Sequences, FiniteSets, TLC

VARIABLES
    \* ---- persistent state ----
    session,          \* config.get('session'): NoSession or a token record
    index,            \* rows of table images, in rowid order
    dir,              \* working directory: file name -> mtimeMs, 0 = absent
    \* ---- the running process ----
    cmd,              \* command of the current / last invocation
    pc,               \* await point of the process
    exitCode,         \* -1 while running, else the exit status
    outcome,          \* the message the process ended with
    opts,             \* parsed command line options and arguments
    calls,            \* remote calls issued by this invocation, per kind
    \* ---- login / pollForToken ----
    pollingInterval,  \* let pollingInterval (seconds)
    initialInterval,  \* the initialInterval argument of pollForToken
    expiresIn,        \* expires_in of the device.code data, -1 before it
    timerDue,         \* due time of the pending setTimeout(poll), -1 = none
    now,              \* seconds since the pending timer was armed
    tokenData,        \* what pollForToken resolved with, NoData before
    lastResp,         \* the most recent device.token response
    sawData,          \* some device.token response carried data
    slowDowns,        \* number of slow_down responses handled
    \* ---- search ----
    files,            \* const files: the scanned image file names
    fileIdx,          \* position of the refresh loop in files
    queryEmbedding,   \* the embedding of the query
    results,          \* const results after the sort
    shown,            \* the results printed
    dbOpen,           \* the Database handle is open
    spinnerState,     \* "none" (never created), "spinning", "stopped"
    hintArmed,        \* the 8 s hint timer is pending
    run,              \* per-invocation record of the refresh loop
    prev,             \* what the previous search invocation did
    \* ---- cosineSimilarity ----
    vecA, vecB,       \* the arguments
    cosOut            \* the value returned, NotComputed before the call

authVars == <<pollingInterval, initialInterval, expiresIn, timerDue, now,
              tokenData, lastResp, sawData, slowDowns>>
searchVars == <<files, fileIdx, queryEmbedding, results, shown, dbOpen,
                spinnerState, hintArmed, run>>
histVars == <<prev>>
cosVars == <<vecA, vecB, cosOut>>
procVars == <<cmd, pc, exitCode, outcome, opts, calls>>
vars == <<session, index, dir, procVars, authVars, searchVars, histVars, cosVars>>

----------------------------------------------------------------------------
(* Bounds of the model *)

MaxCalls == 2        \* remote calls of one kind that are counted
MaxSlowDowns == 2    \* slow_down answers per login
MaxLate == 1         \* seconds a timer may fire after it is due
MaxMtime == 2        \* distinct modification times of a file
MaxDim == 2          \* longest embedding vector
MaxRows == 6         \* rows of the table when the ranking is taken alone

(* Program constants *)

DefaultInterval == 5     \* interval = 5
SlowDownStep == 5        \* pollingInterval += 5
TopK == 5                \* results.slice(0, 5)

----------------------------------------------------------------------------
(* Values *)

NoSession == [kind |-> "none"]
NoData == [kind |-> "none"]
NoError == [kind |-> "none"]
Token(t) == [kind |-> "data", access_token |-> t]
TokenDatas == {Token("tokA"), Token("tokB"), Token("")}
ErrorCodes == {"authorization_pending", "slow_down", "access_denied",
               "expired_token", "invalid_grant", "undefined"}
Err(c) == [kind |-> "error", error |-> c]
NoResp == [kind |-> "none", data |-> NoData, error |-> NoError]
Resp(d, e) == [kind |-> "resp", data |-> d, error |-> e]
Thrown == [kind |-> "throw", data |-> NoData, error |-> NoError]

\* What authClient.device.token can answer: data, an error, neither, or a
\* rejected promise.
TokenResponses ==
    {Resp(d, NoError) : d \in TokenDatas}
    \cup {Resp(NoData, Err(c)) : c \in ErrorCodes}
    \cup {Resp(NoData, NoError), Thrown}

\* What authClient.device.code can answer; interval 0 stands for a response
\* without an interval field.
CodeIntervals == {0, 1}
\* expires_in in seconds: shorter than any interval, or half an hour
CodeExpiries == {1, 1800}
CodeResponses ==
    {[kind |-> "data", interval |-> i, expires_in |-> e] :
        i \in CodeIntervals, e \in CodeExpiries}
    \cup {[kind |-> k, interval |-> 0, expires_in |-> 0] : k \in {"error", "nodata", "throw"}}

CallKinds == {"device.code", "device.token", "getSession", "edit", "describe",
              "tag", "embed.text", "embed.image"}
NoCalls == [k \in CallKinds |-> 0]
Called(k) == [calls EXCEPT ![k] = IF @ < MaxCalls THEN @ + 1 ELSE @]

NoOpts == [quiet |-> FALSE, mode |-> "api", arg |-> "ok"]

----------------------------------------------------------------------------
(* The process *)

Idle == pc \in {"idle", "exited"}

FreshAuth ==
    /\ pollingInterval' = 0
    /\ initialInterval' = 0
    /\ expiresIn' = -1
    /\ timerDue' = -1
    /\ now' = 0
    /\ tokenData' = NoData
    /\ lastResp' = NoResp
    /\ sawData' = FALSE
    /\ slowDowns' = 0

\* process.exit(code), or the end of the process after an uncaught error:
\* every pending timer dies with the process.
Exit(code, why) ==
    /\ pc' = "exited"
    /\ exitCode' = code
    /\ outcome' = why

----------------------------------------------------------------------------
(* login: the device authorization request *)

\* const { ..., interval = 5, ... } = data
IntervalOf(r) == IF r.interval = 0 THEN DefaultInterval ELSE r.interval

\* poll() called at once instead of through the timer
FirstDelayNone(interval) == 0

\* setTimeout(poll, pollingInterval * 1000) at the end of pollForToken
FirstDelay(interval) == interval

\* setTimeout(poll, pollingInterval * 1000) at the end of poll
NextDelay(interval) == interval

\* setInterval(poll, ...): a timer is pending again as soon as one has fired
TimerAfterFireRepeating(interval) == interval

\* the timer pending while poll runs: setTimeout fires once and poll arms
\* the next one only after its await, so none (-1)
TimerAfterFire(interval) == -1

\* if (data.access_token) in place of if (data)
PollOutcomeTokenOnly(r) ==
    IF r.kind = "throw" THEN "network"
    ELSE IF r.data # NoData /\ r.data.access_token # "" THEN "resolve"
    ELSE IF r.error # NoError THEN
        CASE r.error.error = "authorization_pending" -> "continue"
          [] r.error.error = "slow_down" -> "continue"
          [] r.error.error = "access_denied" -> "denied"
          [] r.error.error = "expired_token" -> "expired"
          [] OTHER -> "error"
    ELSE "continue"

\* access_denied and expired_token without their process.exit(1)
PollOutcomeNoExit(r) ==
    IF r.kind = "throw" THEN "network"
    ELSE IF r.data # NoData THEN "resolve"
    ELSE IF r.error # NoError THEN
        CASE r.error.error \in {"authorization_pending", "slow_down", "access_denied",
                                "expired_token"} -> "continue"
          [] OTHER -> "error"
    ELSE "continue"

\* the default case without its process.exit(1): unknown errors are ignored
PollOutcomeIgnoreUnknown(r) ==
    IF r.kind = "throw" THEN "network"
    ELSE IF r.data # NoData THEN "resolve"
    ELSE IF r.error # NoError THEN
        CASE r.error.error = "access_denied" -> "denied"
          [] r.error.error = "expired_token" -> "expired"
          [] OTHER -> "continue"
    ELSE "continue"

\* the catch without its process.exit(1): it falls through to setTimeout
PollOutcomeRetryThrown(r) ==
    IF r.kind = "throw" THEN "continue"
    ELSE IF r.data # NoData THEN "resolve"
    ELSE IF r.error # NoError THEN
        CASE r.error.error = "authorization_pending" -> "continue"
          [] r.error.error = "slow_down" -> "continue"
          [] r.error.error = "access_denied" -> "denied"
          [] r.error.error = "expired_token" -> "expired"
          [] OTHER -> "error"
    ELSE "continue"

\* no process.exit(1) anywhere in poll: every error and every failed request
\* is followed by another timer
PollOutcomeNeverExits(r) ==
    IF r.kind = "resp" /\ r.data # NoData THEN "resolve" ELSE "continue"

\* a response with neither data nor error taken for a failure
PollOutcomeEmptyIsError(r) ==
    IF r.kind = "throw" THEN "network"
    ELSE IF r.data # NoData THEN "resolve"
    ELSE IF r.error # NoError THEN
        CASE r.error.error = "authorization_pending" -> "continue"
          [] r.error.error = "slow_down" -> "continue"
          [] r.error.error = "access_denied" -> "denied"
          [] r.error.error = "expired_token" -> "expired"
          [] OTHER -> "error"
    ELSE "error"

\* The branch poll takes on a device.token response.
PollOutcome(r) ==
    IF r.kind = "throw" THEN "network"
    ELSE IF r.data # NoData THEN "resolve"
    ELSE IF r.error # NoError THEN
        CASE r.error.error = "authorization_pending" -> "continue"
          [] r.error.error = "slow_down" -> "continue"
          [] r.error.error = "access_denied" -> "denied"
          [] r.error.error = "expired_token" -> "expired"
          [] OTHER -> "error"
    ELSE "continue"

\* pollingInterval = 5 in place of pollingInterval += 5
NextIntervalReset(interval, r) ==
    IF /\ r.kind = "resp"
       /\ r.data = NoData
       /\ r.error # NoError
       /\ r.error.error = "slow_down"
    THEN SlowDownStep
    ELSE interval

\* pollingInterval after poll has handled r
NextInterval(interval, r) ==
    IF /\ r.kind = "resp"
       /\ r.data = NoData
       /\ r.error # NoError
       /\ r.error.error = "slow_down"
    THEN interval + SlowDownStep
    ELSE interval

IsSlowDown(r) == r.kind = "resp" /\ r.error # NoError /\ r.error.error = "slow_down"

PollFailure(o) ==
    CASE o = "denied" -> "AccessDenied"
      [] o = "expired" -> "Expired"
      [] o = "error" -> "PollError"
      [] o = "network" -> "NetworkError"

\* config.clear() added to every exit of the poll session
SessionAfterClearing(s, o, r) ==
    IF o = "resolve" THEN r.data ELSE IF o = "continue" THEN s ELSE NoSession

\* the record stored only after getSession has answered
SessionAfterNotYet(s, o, r) == s

\* if (tokenData) config.set('session', tokenData): the stored record once
\* poll has taken branch o on response r
SessionAfter(s, o, r) == IF o = "resolve" THEN r.data ELSE s

\* a deadline taken from expires_in
PastDeadlineEnforced(elapsed, expires_in) == elapsed >= expires_in

\* expires_in is printed and nothing else: poll compares no time with it
PastDeadline(elapsed, expires_in) == FALSE

----------------------------------------------------------------------------
(* search: the directory, the index and the ranking *)

File(stem, ext) == [stem |-> stem, ext |-> ext]
ImageNames == {File("a", ".jpg"), File("b", ".PNG")}
OtherNames == {File("notes", ".txt")}
Names == ImageNames \cup OtherNames
\* fs.readdirSync lists the directory in this order
DirOrder == <<File("a", ".jpg"), File("b", ".PNG"), File("notes", ".txt")>>

imageExtensions == {".jpg", ".jpeg", ".png", ".webp", ".gif", ".bmp", ".tiff"}
\* path.extname(file).toLowerCase()
ToLowerCase(ext) ==
    CASE ext = ".PNG" -> ".png"
      [] ext = ".JPG" -> ".jpg"
      [] OTHER -> ext
IsImage(file) == ToLowerCase(file.ext) \in imageExtensions

\* fs.readdirSync(process.cwd()).filter(...)
Scan(d) == SelectSeq(DirOrder, LAMBDA f : d[f] # 0 /\ IsImage(f))

Includes(seq, x) == \E i \in 1..Len(seq) : seq[i] = x

\* Embedding vectors: components in -1..1, at most MaxDim of them.
Components == {-1, 0, 1}
Vectors == UNION {[1..n -> Components] : n \in 0..MaxDim}
\* What coreviz.embed answers for an image, and for a query text.
ImageEmbeddings == {<<1, 0>>, <<-1, 0>>}
QueryEmbeddings == {<<1, 0>>, <<1>>}

\* JSON.stringify(embedding): the text as a sequence of tokens
RECURSIVE JoinNumbers(_)
JoinNumbers(v) ==
    IF Len(v) = 0 THEN <<>>
    ELSE IF Len(v) = 1 THEN <<ToString(v[1])>>
    ELSE <<ToString(v[1]), ",">> \o JoinNumbers(Tail(v))
JSONStringify(v) == <<"[">> \o JoinNumbers(v) \o <<"]">>

\* JSON.parse(row.embedding) of such a text
NumberOf(tok) == CHOOSE n \in Components : ToString(n) = tok
JSONParse(text) ==
    LET inner == SubSeq(text, 2, Len(text) - 1)
        nums == SelectSeq(inner, LAMBDA t : t # ",")
    IN  [i \in 1..Len(nums) |-> NumberOf(nums[i])]

Row(p, m, e) == [path |-> p, mtime |-> m, embedding |-> e]

\* the clean-up with its test inverted: files.includes(row.path)
ReconcileInverted(idx, fs) == SelectSeq(idx, LAMBDA row : ~Includes(fs, row.path))

\* for (const row of allIndexedFiles) if (!files.includes(row.path)) deleteFile.run(row.path)
Reconcile(idx, fs) == SelectSeq(idx, LAMBDA row : Includes(fs, row.path))

\* getFile.get(file): SELECT mtime FROM images WHERE path = ?
HasRow(idx, p) == \E i \in 1..Len(idx) : idx[i].path = p
GetFile(idx, p) == idx[CHOOSE i \in 1..Len(idx) : idx[i].path = p]

\* a hit only when the run before this one used the same --mode
CacheHitSameMode(idx, p, m) ==
    HasRow(idx, p) /\ GetFile(idx, p).mtime = m /\ prev.mode = opts.mode

\* existing alone: the stored mtime is not looked at
CacheHitPathOnly(idx, p, m) == HasRow(idx, p)

\* existing.mtime > mtime in place of ===
CacheHitNewer(idx, p, m) == HasRow(idx, p) /\ GetFile(idx, p).mtime > m

\* existing && existing.mtime === mtime
CacheHit(idx, p, m) == HasRow(idx, p) /\ GetFile(idx, p).mtime = m

\* UPDATE in place of INSERT OR REPLACE: a path without a row gets none
UpsertUpdateOnly(idx, p, m, e) ==
    [i \in 1..Len(idx) |-> IF idx[i].path = p THEN Row(p, m, e) ELSE idx[i]]

\* INSERT in place of INSERT OR REPLACE, on a table without its primary key
UpsertInsertOnly(idx, p, m, e) == idx \o <<Row(p, m, e)>>

\* upsertFile.run(file, mtime, text): INSERT OR REPLACE INTO images
Upsert(idx, p, m, e) ==
    SelectSeq(idx, LAMBDA row : row.path # p) \o <<Row(p, m, e)>>

IndexPaths(idx) == {idx[i].path : i \in 1..Len(idx)}

----------------------------------------------------------------------------
(* cosineSimilarity *)

\* A similarity is the real number sgn * sqrt(p / q), p and q coprime; the
\* rounding of the floating point division is not modelled.
\* NaN is what 0 / 0 gives.
NaN == [sgn |-> 0, p |-> 0, q |-> -1]
Zero == [sgn |-> 0, p |-> 0, q |-> 1]
One == [sgn |-> 1, p |-> 1, q |-> 1]
MinusOne == [sgn |-> -1, p |-> 1, q |-> 1]
NotComputed == [sgn |-> 0, p |-> 0, q |-> 0]

RECURSIVE GCD(_, _)
GCD(a, b) == IF b = 0 THEN a ELSE GCD(b, a % b)

\* dotProduct / (Math.sqrt(normA) * Math.sqrt(normB))
Quotient(dot, nA, nB) ==
    IF nA * nB = 0 THEN NaN
    ELSE IF dot = 0 THEN Zero
    ELSE LET g == GCD(dot * dot, nA * nB)
         IN  [sgn |-> IF dot > 0 THEN 1 ELSE -1,
              p |-> (dot * dot) \div g,
              q |-> (nA * nB) \div g]

\* for (let i = 0; i < vecA.length; i++) { dotProduct += ...; normA += ...; normB += ... }
RECURSIVE CosLoop(_, _, _, _)
CosLoop(a, b, i, acc) ==
    IF i > Len(a) THEN acc
    ELSE CosLoop(a, b, i + 1,
                 [dotProduct |-> acc.dotProduct + a[i] * b[i],
                  normA |-> acc.normA + a[i] * a[i],
                  normB |-> acc.normB + b[i] * b[i]])

\* without if (normA === 0 || normB === 0) return 0
cosineSimilarityUnguarded(a, b) ==
    IF Len(a) # Len(b) THEN Zero
    ELSE LET acc == CosLoop(a, b, 1, [dotProduct |-> 0, normA |-> 0, normB |-> 0])
         IN  Quotient(acc.dotProduct, acc.normA, acc.normB)

cosineSimilarity(a, b) ==
    IF Len(a) # Len(b) THEN Zero
    ELSE LET acc == CosLoop(a, b, 1, [dotProduct |-> 0, normA |-> 0, normB |-> 0])
         IN  IF acc.normA = 0 \/ acc.normB = 0 THEN Zero
             ELSE Quotient(acc.dotProduct, acc.normA, acc.normB)

\* x <= y as real numbers
SimLeq(x, y) == x.sgn * x.p * y.q <= y.sgn * y.p * x.q

\* for (const row of rows) { if (!row.embedding) continue; ... results.push(...) }
RECURSIVE Score(_, _)
Score(q, rows) ==
    IF rows = <<>> THEN <<>>
    ELSE IF Head(rows).embedding = <<>> THEN Score(q, Tail(rows))
    ELSE <<[file |-> Head(rows).path,
            similarity |-> cosineSimilarity(q, JSONParse(Head(rows).embedding))]>>
         \o Score(q, Tail(rows))

\* (a, b) => a.similarity - b.similarity: ascending
KeepsOrderAscending(a, b) == SimLeq(a.similarity, b.similarity)

\* (a, b) => b.similarity - a.similarity is <= 0: a stays before b
KeepsOrder(a, b) == SimLeq(b.similarity, a.similarity)

\* results.sort(compare): Array.prototype.sort is stable
RECURSIVE Insert(_, _)
Insert(sorted, x) ==
    IF sorted = <<>> THEN <<x>>
    ELSE IF KeepsOrder(Head(sorted), x) THEN <<Head(sorted)>> \o Insert(Tail(sorted), x)
    ELSE <<x>> \o sorted
RECURSIVE SortResults(_)
SortResults(rs) ==
    IF rs = <<>> THEN <<>>
    ELSE Insert(SortResults(SubSeq(rs, 1, Len(rs) - 1)), rs[Len(rs)])

Rank(q, rows) == SortResults(Score(q, rows))

\* results.slice(-5): the last five
SliceLast(rs) == SubSeq(rs, IF Len(rs) < TopK THEN 1 ELSE Len(rs) - TopK + 1, Len(rs))

\* results.slice(0, 5)
Slice(rs) == SubSeq(rs, 1, IF Len(rs) < TopK THEN Len(rs) ELSE TopK)

----------------------------------------------------------------------------
(* Starting a command *)

NoRun == [deleted |-> {},                           \* paths the clean-up deleted
          embedCalls |-> [f \in ImageNames |-> 0],  \* coreviz.embed(image) calls per file
          upserted |-> {},                          \* files upserted
          replaced |-> {},                          \* files whose upsert found a row
          failed |-> {},                            \* files whose read or embedding failed
          mtime |-> 0,                              \* const mtime of the file being embedded
          loopDone |-> FALSE]                       \* the refresh loop ran to its end

FreshSearch ==
    /\ files' = <<>>
    /\ fileIdx' = 0
    /\ queryEmbedding' = <<>>
    /\ results' = <<>>
    /\ shown' = <<>>
    /\ dbOpen' = FALSE
    /\ spinnerState' = "none"
    /\ hintArmed' = FALSE
    /\ run' = NoRun

\* prev is a history variable: what the search invocation before this one
\* did.  It is kept only in the specifications that start with it tracked.
Summary(r) == [tracked |-> TRUE, loopDone |-> r.loopDone, failed |-> r.failed # {},
               mode |-> opts.mode, upserted |-> r.upserted]
NoPrev == [tracked |-> TRUE, loopDone |-> FALSE, failed |-> FALSE,
           mode |-> "api", upserted |-> {}]
Untracked == [tracked |-> FALSE, loopDone |-> FALSE, failed |-> FALSE,
              mode |-> "api", upserted |-> {}]
History(p, c, r) == IF p.tracked /\ c = "search" THEN Summary(r) ELSE p

\* A new process is started once the previous one has ended.
Begin(c, o) ==
    /\ Idle
    /\ cmd' = c
    /\ opts' = o
    /\ prev' = History(prev, cmd, run)
    /\ UNCHANGED cosVars

\* !session alone
LoggedInAnyRecord(s) == s # NoSession

\* !session || !session.access_token
LoggedIn(s) == s # NoSession /\ s.access_token # ""

\* The action function has returned: the process ends once no timer is
\* pending.
EndOfMain(why) ==
    IF hintArmed
    THEN pc' = "draining" /\ exitCode' = -1 /\ outcome' = why
    ELSE Exit(0, why)

----------------------------------------------------------------------------
(* login *)

\* program.command('login').action, up to its first await
LoginStart ==
    /\ Begin("login", NoOpts)
    /\ FreshAuth
    /\ FreshSearch
    /\ exitCode' = -1
    /\ outcome' = "none"
    /\ IF session # NoSession
       THEN pc' = "confirm" /\ calls' = NoCalls
       ELSE pc' = "deviceCode" /\ calls' = [NoCalls EXCEPT !["device.code"] = 1]
    /\ UNCHANGED <<session, index, dir>>

\* !shouldReauth alone: the cancel symbol of isCancel is truthy
DeclinedOnlyNo(answer) == answer = "no"

\* isCancel(shouldReauth) || !shouldReauth
Declined(answer) == answer # "yes"

ConfirmAnswers == {"yes", "no", "cancel"}

\* await confirm(...) has answered
LoginAnswer(answer) ==
    /\ cmd = "login"
    /\ pc = "confirm"
    /\ IF Declined(answer)
       THEN /\ Exit(0, "LoginCancelled")
            /\ UNCHANGED calls
       ELSE /\ pc' = "deviceCode"
            /\ calls' = Called("device.code")
            /\ UNCHANGED <<exitCode, outcome>>
    /\ UNCHANGED <<session, index, dir, cmd, opts, authVars, searchVars,
                   histVars, cosVars>>

LoginConfirm == \E answer \in ConfirmAnswers : LoginAnswer(answer)

\* without if (error) { ...; process.exit(1) }
CodeOutcomeErrorIgnored(r) ==
    IF r.kind = "throw" THEN "Unexpected"
    ELSE IF r.kind = "nodata" THEN "AuthRequestError"
    ELSE "poll"

\* What login does with the answer of device.code: the catch for a rejected
\* request, the two process.exit(1) for an error and for no data, else on
\* to pollForToken
CodeOutcome(r) ==
    IF r.kind = "throw" THEN "Unexpected"
    ELSE IF r.kind = "error" THEN "AuthRequestError"
    ELSE IF r.kind = "nodata" THEN "AuthRequestError"
    ELSE "poll"

\* await authClient.device.code(...) has answered r; on data login goes on
\* into pollForToken, which arms the first timer
LoginCodeAnswer(r) ==
    /\ cmd = "login"
    /\ pc = "deviceCode"
    /\ IF CodeOutcome(r) = "poll"
       THEN /\ pc' = "pollWait"
            /\ pollingInterval' = IntervalOf(r)
            /\ initialInterval' = IntervalOf(r)
            /\ expiresIn' = r.expires_in
            /\ timerDue' = FirstDelay(IntervalOf(r))
            /\ UNCHANGED <<exitCode, outcome>>
       ELSE /\ Exit(1, CodeOutcome(r))
            /\ UNCHANGED <<pollingInterval, initialInterval, expiresIn, timerDue>>
    /\ UNCHANGED <<session, index, dir, cmd, opts, calls, now,
                   tokenData, lastResp, sawData, slowDowns, searchVars,
                   histVars, cosVars>>

LoginDeviceCode == \E r \in CodeResponses : LoginCodeAnswer(r)

\* Time passes until the pending timer is due, or a little longer.
Tick ==
    \E late \in 0..MaxLate :
        /\ cmd = "login"
        /\ pc = "pollWait"
        /\ now < timerDue
        /\ now' = timerDue + late
        /\ UNCHANGED <<session, index, dir, procVars, pollingInterval, initialInterval,
                       expiresIn, timerDue, tokenData, lastResp, sawData, slowDowns,
                       searchVars, histVars, cosVars>>

\* The timer fires: poll runs up to await authClient.device.token(...)
PollFire ==
    /\ cmd = "login"
    /\ pc = "pollWait"
    /\ timerDue >= 0
    /\ now >= timerDue
    /\ pc' = "pollInFlight"
    /\ timerDue' = TimerAfterFire(pollingInterval)
    /\ calls' = Called("device.token")
    /\ UNCHANGED <<session, index, dir, cmd, exitCode, outcome, opts,
                   pollingInterval, initialInterval, expiresIn, now, tokenData,
                   lastResp, sawData, slowDowns, searchVars, histVars, cosVars>>

\* device.token has answered r: the rest of poll and, when the promise is
\* resolved, login up to await authClient.getSession(...)
PollAnswer(r) ==
    LET o == PollOutcome(r) IN
    /\ cmd = "login"
    /\ pc = "pollInFlight"
    /\ IsSlowDown(r) => slowDowns < MaxSlowDowns
    /\ lastResp' = r
    /\ sawData' = (sawData \/ r.data # NoData)
    /\ slowDowns' = IF IsSlowDown(r) THEN slowDowns + 1 ELSE slowDowns
    /\ pollingInterval' = NextInterval(pollingInterval, r)
    /\ session' = SessionAfter(session, o, r)
    /\ CASE o = "resolve" ->
              /\ tokenData' = r.data
              /\ calls' = Called("getSession")
              /\ pc' = "getSession"
              /\ UNCHANGED <<exitCode, outcome, timerDue, now>>
         [] o = "continue" /\ ~PastDeadline(now, expiresIn) ->
              /\ timerDue' = NextDelay(pollingInterval')
              /\ now' = 0
              /\ pc' = "pollWait"
              /\ UNCHANGED <<exitCode, outcome, tokenData, calls>>
         [] o = "continue" /\ PastDeadline(now, expiresIn) ->
              /\ Exit(1, "Expired")
              /\ UNCHANGED <<timerDue, now, tokenData, calls>>
         [] OTHER ->
              /\ Exit(1, PollFailure(o))
              /\ UNCHANGED <<timerDue, now, tokenData, calls>>
    /\ UNCHANGED <<index, dir, cmd, opts, initialInterval, expiresIn, searchVars,
                   histVars, cosVars>>

PollResponse == \E r \in TokenResponses : PollAnswer(r)

\* await authClient.getSession(...) has answered
LoginGetSession ==
    \E ok \in BOOLEAN :
        /\ cmd = "login"
        /\ pc = "getSession"
        /\ IF ok THEN Exit(0, "LoggedIn") ELSE Exit(1, "Unexpected")
        /\ UNCHANGED <<session, index, dir, cmd, opts, calls, authVars, searchVars,
                       histVars, cosVars>>

----------------------------------------------------------------------------
(* logout, whoami *)

\* config.delete of another key: the record stays
ConfigClearOtherKey(s) == s

\* config.clear(): nothing is stored any more
ConfigClear(s) == NoSession

\* program.command('logout').action: config.clear()
Logout ==
    /\ Begin("logout", NoOpts)
    /\ FreshAuth
    /\ FreshSearch
    /\ session' = ConfigClear(session)
    /\ calls' = NoCalls
    /\ Exit(0, "LoggedOut")
    /\ UNCHANGED <<index, dir>>

\* session.user is never part of what login stores
Whoami ==
    /\ Begin("whoami", NoOpts)
    /\ FreshAuth
    /\ FreshSearch
    /\ calls' = NoCalls
    /\ Exit(0, IF session # NoSession /\ session.access_token # ""
               THEN "LoggedInAs" ELSE "NotLoggedIn")
    /\ UNCHANGED <<session, index, dir>>

----------------------------------------------------------------------------
(* edit, describe, tag *)

GatedCommands == {"edit", "describe", "tag"}
Modes == {"api", "local"}
\* The command line: the image path names no file, the prompt is empty, the
\* prompt is empty and --choices is given, the file cannot be read, or all
\* is in order.
Arguments == {"nofile", "noprompt", "choices", "unreadable", "ok"}

\* let spinner; if (!options.quiet) { spinner = yoctoSpinner(...); spinner.start() }
SpinnerFor(quiet) == IF quiet THEN "none" ELSE "spinning"

\* if (spinner) spinner.stop()
Stopped(sp) == IF sp = "none" THEN "none" ELSE "stopped"

\* fs.existsSync(imagePath) tested before the credential
GateFileFirst(c, s, quiet, exists, prompt, choices) ==
    IF ~exists THEN "FileNotFound"
    ELSE IF ~LoggedIn(s) THEN "NotAuthenticated"
    ELSE IF c = "describe" \/ prompt \/ (c = "tag" /\ choices) THEN "call"
    ELSE IF quiet THEN "PromptRequired"
    ELSE "prompt"

\* The checks edit, describe and tag make before anything else, in the order
\* of the code: the credential, the file, the prompt.
Gate(c, s, quiet, exists, prompt, choices) ==
    IF ~LoggedIn(s) THEN "NotAuthenticated"
    ELSE IF ~exists THEN "FileNotFound"
    ELSE IF c = "describe" \/ prompt \/ (c = "tag" /\ choices) THEN "call"
    ELSE IF quiet THEN "PromptRequired"
    ELSE "prompt"

\* The try block up to the await of the remote call: readImageAsBase64, then
\* coreviz.edit / describe / tag.  tag arms its hint timer when not quiet.
CallRemote(c, quiet, readOk, base) ==
    /\ spinnerState' = SpinnerFor(quiet)
    /\ IF readOk
       THEN /\ pc' = "remote"
            /\ exitCode' = -1
            /\ outcome' = "none"
            /\ calls' = [base EXCEPT ![c] = @ + 1]
            /\ hintArmed' = (c = "tag" /\ ~quiet)
       ELSE /\ Exit(1, "RemoteApiError")
            /\ calls' = base
            /\ hintArmed' = FALSE

\* The action of edit, describe or tag, up to its first await
GatedStart ==
    \E c \in GatedCommands, quiet \in BOOLEAN, mode \in Modes, arg \in Arguments :
        LET exists == arg # "nofile"
            prompt == arg \notin {"noprompt", "choices"}
            choices == arg = "choices"
            readOk == arg # "unreadable"
            g == Gate(c, session, quiet, exists, prompt, choices)
        IN
        /\ c # "tag" => mode = "api"
        /\ Begin(c, [quiet |-> quiet, mode |-> mode, arg |-> arg])
        /\ FreshAuth
        /\ files' = <<>> /\ fileIdx' = 0 /\ queryEmbedding' = <<>>
        /\ results' = <<>> /\ shown' = <<>> /\ dbOpen' = FALSE /\ run' = NoRun
        /\ CASE g = "call" -> CallRemote(c, quiet, readOk, NoCalls)
             [] g = "prompt" ->
                  /\ pc' = "prompt" /\ exitCode' = -1 /\ outcome' = "none"
                  /\ calls' = NoCalls /\ spinnerState' = "none" /\ hintArmed' = FALSE
             [] OTHER ->
                  /\ Exit(1, g)
                  /\ calls' = NoCalls /\ spinnerState' = "none" /\ hintArmed' = FALSE
        /\ UNCHANGED <<session, index, dir>>

\* await text(...) has answered
GatedPrompt ==
    \E cancelled \in BOOLEAN, readOk \in BOOLEAN :
        /\ cmd \in GatedCommands
        /\ pc = "prompt"
        /\ IF cancelled
           THEN Exit(0, "Cancelled") /\ UNCHANGED <<calls, spinnerState, hintArmed>>
           ELSE CallRemote(cmd, opts.quiet, readOk, calls)
        /\ UNCHANGED <<session, index, dir, cmd, opts, authVars, files, fileIdx,
                       queryEmbedding, results, shown, dbOpen, run, histVars, cosVars>>

\* await coreviz.edit / describe / tag has answered.  The file edit writes
\* into the working directory is not followed.
GatedResponse ==
    \E r \in {"ok", "credits", "error"} :
        /\ cmd \in GatedCommands
        /\ pc = "remote"
        /\ spinnerState' = Stopped(spinnerState)
        /\ IF r = "ok"
           THEN EndOfMain("Done") /\ UNCHANGED hintArmed
           ELSE /\ Exit(1, IF r = "credits" THEN "InsufficientCredits" ELSE "RemoteApiError")
                /\ hintArmed' = FALSE
        /\ UNCHANGED <<session, index, dir, cmd, opts, calls, authVars, files, fileIdx,
                       queryEmbedding, results, shown, dbOpen, run, histVars, cosVars>>

----------------------------------------------------------------------------
(* search *)

\* The 8 s hint timer fires; its callback reads spinner.isSpinning.
HintFire ==
    /\ hintArmed
    /\ pc \in {"remote", "warmup", "embedding", "query", "draining"}
    /\ hintArmed' = FALSE
    /\ IF spinnerState = "none"
       THEN Exit(1, "Crash")
       ELSE IF pc = "draining"
       THEN Exit(0, outcome)
       ELSE UNCHANGED <<pc, exitCode, outcome>>
    /\ UNCHANGED <<session, index, dir, cmd, opts, calls, authVars, files, fileIdx,
                   queryEmbedding, results, shown, dbOpen, spinnerState, run,
                   histVars, cosVars>>

\* The action of search up to its first await: the credential check, the
\* scan, the clean-up of the index and, in local mode, the warm-up call.
SearchStart ==
    \E quiet \in BOOLEAN, mode \in Modes :
        LET fs == Scan(dir) IN
        /\ Begin("search", [quiet |-> quiet, mode |-> mode, arg |-> "ok"])
        /\ FreshAuth
        /\ queryEmbedding' = <<>> /\ results' = <<>> /\ shown' = <<>>
        /\ UNCHANGED <<session, dir>>
        /\ IF ~LoggedIn(session)
           THEN /\ Exit(1, "NotAuthenticated")
                /\ calls' = NoCalls
                /\ files' = <<>> /\ fileIdx' = 0 /\ dbOpen' = FALSE
                /\ spinnerState' = "none" /\ hintArmed' = FALSE /\ run' = NoRun
                /\ UNCHANGED index
           ELSE /\ files' = fs
                /\ dbOpen' = TRUE
                /\ IF fs = <<>>
                   THEN /\ Exit(0, "NoImages")
                        /\ run' = NoRun
                        /\ calls' = NoCalls
                        /\ fileIdx' = 0
                        /\ spinnerState' = Stopped(SpinnerFor(quiet))
                        /\ hintArmed' = FALSE
                        /\ UNCHANGED index
                   ELSE /\ index' = Reconcile(index, fs)
                        /\ run' = [NoRun EXCEPT !.deleted =
                                      {p \in IndexPaths(index) : ~Includes(fs, p)}]
                        /\ fileIdx' = 1
                        /\ exitCode' = -1
                        /\ outcome' = "none"
                        /\ spinnerState' = SpinnerFor(quiet)
                        /\ IF mode = "local"
                           THEN /\ pc' = "warmup"
                                /\ hintArmed' = TRUE
                                /\ calls' = [NoCalls EXCEPT !["embed.text"] = 1]
                           ELSE /\ pc' = "loop"
                                /\ hintArmed' = FALSE
                                /\ calls' = NoCalls

\* await coreviz.embed('text', ...) has answered; it is not inside a try
SearchWarmup ==
    \E ok \in BOOLEAN :
        /\ cmd = "search"
        /\ pc = "warmup"
        /\ IF ok
           THEN /\ pc' = "loop"
                /\ spinnerState' = Stopped(spinnerState)
                /\ UNCHANGED <<exitCode, outcome, hintArmed>>
           ELSE /\ Exit(1, "Crash")
                /\ hintArmed' = FALSE
                /\ UNCHANGED spinnerState
        /\ UNCHANGED <<session, index, dir, cmd, opts, calls, authVars, files, fileIdx,
                       queryEmbedding, results, shown, dbOpen, run, histVars, cosVars>>

\* the loop left one file early
LoopEndedEarly(i, fs) == i >= Len(fs)

\* for (const file of files) has run out of files
LoopEnded(i, fs) == i > Len(fs)

\* One turn of for (const file of files), up to its await; after the last
\* file, the code up to await coreviz.embed(query, ...)
SearchLoop ==
    \E readOk \in BOOLEAN :
        /\ cmd = "search"
        /\ pc = "loop"
        /\ IF LoopEnded(fileIdx, files)
           THEN /\ pc' = "query"
                /\ calls' = Called("embed.text")
                /\ run' = [run EXCEPT !.loopDone = TRUE]
                /\ UNCHANGED <<exitCode, outcome, fileIdx, hintArmed>>
           ELSE LET file == files[fileIdx]
                    mtime == dir[file]
                IN  IF mtime = 0
                    THEN \* fs.statSync throws, outside any try
                         /\ Exit(1, "Crash")
                         /\ hintArmed' = FALSE
                         /\ UNCHANGED <<calls, run, fileIdx>>
                    ELSE IF CacheHit(index, file, mtime)
                    THEN /\ fileIdx' = fileIdx + 1
                         /\ UNCHANGED <<pc, exitCode, outcome, calls, run, hintArmed>>
                    ELSE IF ~readOk
                    THEN \* readImageAsBase64 throws inside the try
                         /\ fileIdx' = fileIdx + 1
                         /\ run' = [run EXCEPT !.failed = @ \cup {file}]
                         /\ UNCHANGED <<pc, exitCode, outcome, calls, hintArmed>>
                    ELSE /\ pc' = "embedding"
                         /\ calls' = Called("embed.image")
                         /\ run' = [run EXCEPT !.mtime = mtime,
                                               !.embedCalls[file] = @ + 1]
                         /\ UNCHANGED <<exitCode, outcome, fileIdx, hintArmed>>
        /\ UNCHANGED <<session, index, dir, cmd, opts, authVars, files, queryEmbedding,
                       results, shown, dbOpen, spinnerState, histVars, cosVars>>

EmbedAnswers == [kind : {"ok"}, embedding : ImageEmbeddings]
                \cup {[kind |-> "credits", embedding |-> <<>>],
                      [kind |-> "error", embedding |-> <<>>]}

\* What the catch of the refresh loop does with an error: "exit" or "continue"
OnEmbedError(kind, quiet) ==
    IF ~quiet /\ kind = "credits" THEN "exit" ELSE "continue"

\* the turn repeated for the file whose embedding failed
AfterFailureRetry(i) == i

\* the catch ends the turn: the loop goes on with the next file
AfterFailure(i) == i + 1

\* the mtime read again when the row is written
StoredMtimeAtUpsert(statted, current) == current

\* upsert.run(file, mtime, ...): mtime is the constant fs.statSync gave at
\* the head of the turn, whatever the file's mtime is by now
StoredMtime(statted, current) == statted

\* await coreviz.embed(base64Image, ...) has answered: the upsert or the catch
SearchEmbed ==
    \E r \in EmbedAnswers :
        LET file == files[fileIdx] IN
        /\ cmd = "search"
        /\ pc = "embedding"
        /\ IF r.kind = "ok"
           THEN /\ index' = Upsert(index, file, StoredMtime(run.mtime, dir[file]),
                                 JSONStringify(r.embedding))
                /\ run' = [run EXCEPT !.upserted = @ \cup {file},
                                      !.replaced = IF HasRow(index, file)
                                                   THEN @ \cup {file} ELSE @,
                                      !.mtime = 0]
                /\ fileIdx' = fileIdx + 1
                /\ pc' = "loop"
                /\ UNCHANGED <<exitCode, outcome, hintArmed>>
           ELSE IF OnEmbedError(r.kind, opts.quiet) = "exit"
           THEN /\ Exit(1, "InsufficientCredits")
                /\ hintArmed' = FALSE
                /\ run' = [run EXCEPT !.failed = @ \cup {file}, !.mtime = 0]
                /\ UNCHANGED <<index, fileIdx>>
           ELSE /\ run' = [run EXCEPT !.failed = @ \cup {file}, !.mtime = 0]
                /\ fileIdx' = AfterFailure(fileIdx)
                /\ pc' = "loop"
                /\ UNCHANGED <<index, exitCode, outcome, hintArmed>>
        /\ UNCHANGED <<session, dir, cmd, opts, calls, authVars, files, queryEmbedding,
                       results, shown, dbOpen, spinnerState, histVars, cosVars>>

\* await coreviz.embed(query, ...) has answered: the ranking, the output and
\* db.close() in the finally, or process.exit(1) in the catch
SearchQuery ==
    \E ok \in BOOLEAN, q \in QueryEmbeddings :
        /\ cmd = "search"
        /\ pc = "query"
        /\ spinnerState' = Stopped(spinnerState)
        /\ IF ok
           THEN /\ queryEmbedding' = q
                /\ results' = Rank(q, index)
                /\ shown' = Slice(results')
                /\ dbOpen' = FALSE
                /\ EndOfMain("Results")
                /\ UNCHANGED hintArmed
           ELSE /\ Exit(1, "SearchFailed")
                /\ hintArmed' = FALSE
                /\ UNCHANGED <<queryEmbedding, results, shown, dbOpen>>
        /\ UNCHANGED <<session, index, dir, cmd, opts, calls, authVars, files, fileIdx,
                       run, histVars, cosVars>>

----------------------------------------------------------------------------
(* The working directory changes under the program *)

\* The directory changes before a run, between the scan and the stat of a
\* file, or while a file is being embedded.  Nothing is left of a process
\* that has ended but what the next search needs to know of it.
Changed(d) ==
    /\ pc \in {"idle", "exited", "loop", "embedding"}
    /\ dir' = d
    /\ IF pc = "exited"
       THEN /\ cmd' = "none" /\ pc' = "idle" /\ exitCode' = -1 /\ outcome' = "none"
            /\ opts' = NoOpts /\ calls' = NoCalls
            /\ FreshAuth
            /\ FreshSearch
            /\ prev' = History(prev, cmd, run)
       ELSE UNCHANGED <<procVars, authVars, searchVars, prev>>
    /\ UNCHANGED <<session, index, cosVars>>

Touch ==
    \E f \in ImageNames :
        /\ dir[f] # 0
        /\ dir[f] < MaxMtime
        /\ Changed([dir EXCEPT ![f] = @ + 1])

Remove ==
    \E f \in ImageNames :
        /\ dir[f] # 0
        /\ Changed([dir EXCEPT ![f] = 0])

Create ==
    \E f \in ImageNames, m \in 1..MaxMtime :
        /\ dir[f] = 0
        /\ Changed([dir EXCEPT ![f] = m])

----------------------------------------------------------------------------
(* The ranking of search taken on its own *)

RankCall ==
    /\ pc = "rank"
    /\ results' = Rank(queryEmbedding, index)
    /\ shown' = Slice(results')
    /\ pc' = "ranked"
    /\ UNCHANGED <<session, index, dir, cmd, exitCode, outcome, opts, calls, authVars,
                   files, fileIdx, queryEmbedding, dbOpen, spinnerState, hintArmed,
                   run, histVars, cosVars>>

----------------------------------------------------------------------------
(* cosineSimilarity called on its own *)

CosCall ==
    /\ cosOut = NotComputed
    /\ cosOut' = cosineSimilarity(vecA, vecB)
    /\ UNCHANGED <<session, index, dir, procVars, authVars, searchVars, histVars,
                   vecA, vecB>>

----------------------------------------------------------------------------
(* Specifications *)

\* No process has run yet.
InitProcess ==
    /\ cmd = "none" /\ pc = "idle" /\ exitCode = -1 /\ outcome = "none"
    /\ opts = NoOpts /\ calls = NoCalls
    /\ pollingInterval = 0 /\ initialInterval = 0 /\ expiresIn = -1
    /\ timerDue = -1 /\ now = 0
    /\ tokenData = NoData /\ lastResp = NoResp
    /\ sawData = FALSE /\ slowDowns = 0
    /\ files = <<>> /\ fileIdx = 0 /\ queryEmbedding = <<>> /\ results = <<>>
    /\ shown = <<>> /\ dbOpen = FALSE /\ spinnerState = "none"
    /\ hintArmed = FALSE /\ run = NoRun

InitCosIdle == vecA = <<>> /\ vecB = <<>> /\ cosOut = Zero

\* The whole client on a fresh installation, in a directory that holds one
\* image and a text file and does not change.
StaticDir == [f \in Names |-> IF f.stem = "b" THEN 0 ELSE 1]

Init ==
    /\ session = NoSession
    /\ index = <<>>
    /\ dir = StaticDir
    /\ prev = Untracked
    /\ InitProcess
    /\ InitCosIdle

Next ==
    \/ LoginStart
    \/ LoginConfirm
    \/ LoginDeviceCode
    \/ Tick
    \/ PollFire
    \/ PollResponse
    \/ LoginGetSession
    \/ Logout
    \/ Whoami
    \/ GatedStart
    \/ GatedPrompt
    \/ GatedResponse
    \/ HintFire
    \/ SearchStart
    \/ SearchWarmup
    \/ SearchLoop
    \/ SearchEmbed
    \/ SearchQuery

Spec == Init /\ [][Next]_vars

\* search alone, logged in or not, in a directory whose images come, go and
\* are modified at any moment.
InitSearch ==
    /\ session \in {NoSession, Token("tokA")}
    /\ index = <<>>
    /\ dir \in {d \in [Names -> 0..1] : \A f \in OtherNames : d[f] = 1}
    /\ prev = Untracked
    /\ InitProcess
    /\ InitCosIdle

NextSearch ==
    \/ SearchStart
    \/ SearchWarmup
    \/ SearchLoop
    \/ SearchEmbed
    \/ SearchQuery
    \/ HintFire
    \/ Touch
    \/ Remove
    \/ Create

SpecSearch == InitSearch /\ [][NextSearch]_vars

\* search run again and again in a directory that does not change
InitTwice ==
    /\ session = Token("tokA")
    /\ index = <<>>
    /\ dir \in {d \in [Names -> 0..MaxMtime] : \A f \in OtherNames : d[f] = 1}
    /\ prev = NoPrev
    /\ InitProcess
    /\ InitCosIdle

NextTwice ==
    \/ SearchStart
    \/ SearchWarmup
    \/ SearchLoop
    \/ SearchEmbed
    \/ SearchQuery
    \/ HintFire

SpecTwice == InitTwice /\ [][NextTwice]_vars

\* The ranking on every table of at most MaxRows rows.  The column embedding
\* is nullable: a row may hold no text.
RankTexts == {<<>>, JSONStringify(<<1, 0>>), JSONStringify(<<-1, 0>>),
              JSONStringify(<<1, 1>>)}
RankTable(n, t) == [i \in 1..n |-> Row(File(ToString(i), ".jpg"), 1, t[i])]

InitRank ==
    /\ session = Token("tokA")
    /\ \E n \in 0..MaxRows : \E t \in [1..n -> RankTexts] : index = RankTable(n, t)
    /\ dir = StaticDir
    /\ prev = Untracked
    /\ cmd = "none" /\ pc = "rank" /\ exitCode = -1 /\ outcome = "none"
    /\ opts = NoOpts /\ calls = NoCalls
    /\ pollingInterval = 0 /\ initialInterval = 0 /\ expiresIn = -1
    /\ timerDue = -1 /\ now = 0
    /\ tokenData = NoData /\ lastResp = NoResp
    /\ sawData = FALSE /\ slowDowns = 0
    /\ files = <<>> /\ fileIdx = 0 /\ queryEmbedding \in QueryEmbeddings
    /\ results = <<>> /\ shown = <<>> /\ dbOpen = TRUE /\ spinnerState = "none"
    /\ hintArmed = FALSE /\ run = NoRun
    /\ InitCosIdle

NextRank == RankCall

SpecRank == InitRank /\ [][NextRank]_vars

\* cosineSimilarity on every pair of vectors
InitCos ==
    /\ session = NoSession
    /\ index = <<>>
    /\ dir = StaticDir
    /\ prev = Untracked
    /\ InitProcess
    /\ vecA \in Vectors
    /\ vecB \in Vectors
    /\ cosOut = NotComputed

NextCos == CosCall

SpecCos == InitCos /\ [][NextCos]_vars

\* login alone, on a server that answers every device.token request with
\* authorization_pending or slow_down.  The event loop runs a timer that is
\* due, and the server answers every request.
PendingResponses == {Resp(NoData, Err("authorization_pending")),
                     Resp(NoData, Err("slow_down"))}
PollPending == \E r \in PendingResponses : PollAnswer(r)

InitLogin ==
    /\ session \in {NoSession, Token("tokA")}
    /\ index = <<>>
    /\ dir = StaticDir
    /\ prev = Untracked
    /\ InitProcess
    /\ InitCosIdle

NextPending ==
    \/ LoginStart
    \/ LoginConfirm
    \/ LoginDeviceCode
    \/ Tick
    \/ PollFire
    \/ PollPending

SpecPending ==
    /\ InitLogin
    /\ [][NextPending]_vars
    /\ WF_vars(Tick)
    /\ WF_vars(PollFire)
    /\ WF_vars(PollPending)

\* login alone, on a server that sooner or later answers a device.token
\* request with something else than authorization_pending, slow_down or an
\* empty response.
FinalResponses ==
    {r \in TokenResponses : r.kind = "throw" \/ r.data # NoData
                            \/ (r.error # NoError /\ r \notin PendingResponses)}
PollFinal == \E r \in FinalResponses : PollAnswer(r)

NextAnswered ==
    \/ LoginStart
    \/ LoginConfirm
    \/ LoginDeviceCode
    \/ Tick
    \/ PollFire
    \/ PollResponse
    \/ LoginGetSession

SpecAnswered ==
    /\ InitLogin
    /\ [][NextAnswered]_vars
    /\ WF_vars(Tick)
    /\ WF_vars(PollFire)
    /\ SF_vars(PollFinal)

----------------------------------------------------------------------------
(* Properties of login *)

\* C1: in a login, pollForToken has returned a credential record to login if
\* and only if some device.token response of the session carried data, and
\* the record returned is that data; no other response makes it return.
C1_ReturnsIffToken ==
    cmd = "login" =>
        /\ (tokenData # NoData) <=> sawData
        /\ tokenData # NoData => tokenData = lastResp.data
        /\ (lastResp.kind = "throw" \/ lastResp.data = NoData) => tokenData = NoData

C1_Witness ==
    /\ cmd = "login"
    /\ tokenData # NoData
    /\ slowDowns = 1
    /\ calls["device.token"] = 2

\* C2: every device.token request, the first one included, is issued only
\* when at least the current polling interval (the initial interval plus 5
\* seconds for every slow_down handled so far) has passed since the timer
\* was armed, which is when the session started or when the previous
\* response was handled.
C2_NeverFasterThanInterval ==
    [][(pc = "pollWait" /\ pc' = "pollInFlight") =>
          /\ now >= pollingInterval
          /\ now >= initialInterval + SlowDownStep * slowDowns]_vars

C2_Witness ==
    /\ cmd = "login"
    /\ pc = "pollInFlight"
    /\ slowDowns = 1
    /\ pollingInterval = DefaultInterval + SlowDownStep
    /\ now = pollingInterval

\* C3: in every state of a login the polling interval is the initial interval
\* plus 5 seconds for every slow_down response handled so far; so every
\* slow_down raises it by 5, no other response changes it, and it is never
\* lowered or reset.
C3_IntervalIsInitialPlusSlowDowns ==
    cmd = "login" => pollingInterval = initialInterval + SlowDownStep * slowDowns

C3_Witness ==
    /\ cmd = "login"
    /\ pc = "pollWait"
    /\ slowDowns = 2
    /\ lastResp.error = Err("authorization_pending")
    /\ pollingInterval = initialInterval + 10

\* C4: once a device.token response with error access_denied or expired_token
\* has been handled, the process has exited with status 1, no timer is
\* pending, no request can be issued, and no credential was returned.
C4_DeniedAndExpiredAreTerminal ==
    (/\ cmd = "login"
     /\ lastResp.kind = "resp"
     /\ lastResp.error \in {Err("access_denied"), Err("expired_token")}) =>
        /\ pc = "exited"
        /\ exitCode = 1
        /\ outcome = (IF lastResp.error = Err("access_denied")
                      THEN "AccessDenied" ELSE "Expired")
        /\ timerDue = -1
        /\ tokenData = NoData
        /\ ~ENABLED PollFire
        /\ ~ENABLED Tick
        /\ ~ENABLED PollResponse

C4_Witness ==
    /\ cmd = "login"
    /\ lastResp.error = Err("expired_token")
    /\ calls["device.token"] = 2
    /\ pc = "exited"

----------------------------------------------------------------------------
(* Properties of the commands that need a credential *)

\* C5: while no credential record is stored, or the stored record has no
\* access_token, an invocation of edit, describe, tag or search has ended
\* as not logged in with exit status 1 and has issued no remote call.
C5_NoCredentialNoRemoteCall ==
    (cmd \in GatedCommands \cup {"search"} /\ ~(session # NoSession /\ session.access_token # "")) =>
        /\ pc = "exited"
        /\ exitCode = 1
        /\ outcome = "NotAuthenticated"
        /\ calls = NoCalls
        /\ ~dbOpen

C5_Witness ==
    /\ cmd = "search"
    /\ session = Token("")
    /\ outcome = "NotAuthenticated"
    /\ calls = NoCalls

----------------------------------------------------------------------------
(* Properties of the index *)

Range(seq) == {seq[i] : i \in 1..Len(seq)}

\* The step of search that scans the directory and cleans the index up
ReconcileStep == pc \in {"idle", "exited"} /\ cmd' = "search" /\ pc' \in {"loop", "warmup"}

\* C6: the clean-up of search deletes every row whose path is not among the
\* scanned image files and leaves every other row as it was, with its mtime
\* and its embedding, in the order the rows had.
C6_ReconcileDeletesExactlyTheMissing ==
    [][ReconcileStep =>
          /\ files' = Scan(dir)
          /\ \A r \in Range(index) : r.path \in Range(files') <=> r \in Range(index')
          /\ Range(index') \subseteq Range(index)
          /\ Len(index') = Cardinality(Range(index'))
          /\ \A i, j \in 1..Len(index') : i < j =>
                \E k, l \in 1..Len(index) : k < l /\ index[k] = index'[i] /\ index[l] = index'[j]]_vars

\* a.jpg is scanned and kept, the row of b.PNG is deleted
C6_Witness ==
    /\ cmd = "search"
    /\ pc \in {"loop", "warmup"}
    /\ fileIdx = 1
    /\ run.deleted = {File("b", ".PNG")}
    /\ files = <<File("a", ".jpg")>>
    /\ IndexPaths(index) = {File("a", ".jpg")}

\* C7 as claimed: once the refresh loop has processed every scanned file, the
\* paths in the index are exactly the scanned image files.
C7_Original ==
    (cmd = "search" /\ run.loopDone) => IndexPaths(index) = Range(files)

\* C7 amended: once the refresh loop has processed every scanned file, every
\* path in the index is a scanned image file, and every scanned file whose
\* read and embedding did not fail in this run has a row; so the two sets are
\* equal when nothing failed.
C7_IndexPathsAfterRefresh ==
    (cmd = "search" /\ run.loopDone) =>
        /\ IndexPaths(index) \subseteq Range(files)
        /\ Range(files) \ run.failed \subseteq IndexPaths(index)
        /\ run.failed = {} => IndexPaths(index) = Range(files)

C7_Witness ==
    /\ cmd = "search"
    /\ run.loopDone
    /\ Len(files) = 2
    /\ run.failed = {}
    /\ run.deleted = {}
    /\ Cardinality(run.upserted) = 1
    /\ IndexPaths(index) = Range(files)

----------------------------------------------------------------------------
(* Properties of the ranking *)

\* C9: the list search builds is in non-increasing order of similarity and
\* holds exactly one result for every row whose embedding text is not empty,
\* also for the empty table and for a table of one row.
C9_ResultsSortedAndComplete ==
    pc = "ranked" =>
        /\ \A i, j \in 1..Len(results) :
              i < j => SimLeq(results[j].similarity, results[i].similarity)
        /\ \A r \in Range(index) :
              Cardinality({i \in 1..Len(results) : results[i].file = r.path})
                 = (IF r.embedding = <<>> THEN 0 ELSE 1)
        /\ Len(results) = Cardinality({r \in Range(index) : r.embedding # <<>>})

C9_Witness ==
    /\ pc = "ranked"
    /\ Len(index) = 4
    /\ Len(results) = 3
    /\ results[1].similarity = One
    /\ results[2].similarity # One
    /\ results[3].similarity = MinusOne

----------------------------------------------------------------------------
(* Properties of cosineSimilarity *)

RECURSIVE SumOver(_, _)
SumOver(f, n) == IF n = 0 THEN 0 ELSE f[n] + SumOver(f, n - 1)
Dot(a, b) == SumOver([i \in 1..Len(a) |-> a[i] * b[i]], Len(a))

\* C10: cosineSimilarity returns 0 for vectors of different lengths and for
\* a vector of norm zero, and otherwise the number dot(a,b) / (|a| |b|): its
\* sign is that of the dot product and its square is dot^2 / (|a|^2 |b|^2).
\* It is 1 for [1,0] and [1,0], 0 for [1,0] and [0,1], -1 for [1,0] and [-1,0].
C10_CosineSimilarity ==
    cosOut # NotComputed =>
        /\ Len(vecA) # Len(vecB) => cosOut = Zero
        /\ (Len(vecA) = Len(vecB) /\ (Dot(vecA, vecA) = 0 \/ Dot(vecB, vecB) = 0)) =>
              cosOut = Zero
        /\ (Len(vecA) = Len(vecB) /\ Dot(vecA, vecA) # 0 /\ Dot(vecB, vecB) # 0) =>
              /\ cosOut.q > 0
              /\ cosOut.sgn * Dot(vecA, vecB) >= 0
              /\ (cosOut.sgn = 0) <=> (Dot(vecA, vecB) = 0)
              /\ cosOut.p * Dot(vecA, vecA) * Dot(vecB, vecB)
                    = cosOut.q * Dot(vecA, vecB) * Dot(vecA, vecB)
        /\ (vecA = <<1, 0>> /\ vecB = <<1, 0>>) => cosOut = One
        /\ (vecA = <<1, 0>> /\ vecB = <<0, 1>>) => cosOut = Zero
        /\ (vecA = <<1, 0>> /\ vecB = <<-1, 0>>) => cosOut = MinusOne

C10_Witness ==
    /\ vecA = <<1, 0>>
    /\ vecB = <<-1, 0>>
    /\ cosOut = MinusOne

----------------------------------------------------------------------------
(* Properties of the token store *)

\* C11: whenever a credential record is stored, its access_token is a
\* non-empty string.
C11_Original ==
    session # NoSession => session.access_token # ""

----------------------------------------------------------------------------
(* Properties of the index *)

UniquePaths(idx) == \A i, j \in 1..Len(idx) : idx[i].path = idx[j].path => i = j
RowsOf(idx, p) == SelectSeq(idx, LAMBDA row : row.path = p)
RowsNotOf(idx, p) == SelectSeq(idx, LAMBDA row : row.path # p)

\* C12: the index never holds two rows for one path, and the step in which
\* an embedding is stored leaves exactly one row for the file, with the mtime
\* read in this turn of the loop and the text of the embedding received, and
\* every row of another path as it was; the table grows by one row only when
\* the file had none.
C12_OneEntryPerPath ==
    [][/\ UniquePaths(index)
       /\ UniquePaths(index')
       /\ (cmd = "search" /\ pc = "embedding" /\ run'.upserted # run.upserted) =>
             LET file == files[fileIdx] IN
             /\ Len(RowsOf(index', file)) = 1
             /\ RowsOf(index', file)[1].mtime = run.mtime
             /\ \E e \in ImageEmbeddings :
                   RowsOf(index', file)[1].embedding = JSONStringify(e)
             /\ RowsNotOf(index', file) = RowsNotOf(index, file)
             /\ Len(index') = Len(index) + (IF HasRow(index, file) THEN 0 ELSE 1)]_vars

C12_Witness ==
    /\ cmd = "search"
    /\ run.replaced # {}
    /\ Len(index) = 2
    /\ UniquePaths(index)

----------------------------------------------------------------------------
(* Properties of edit, describe and tag *)

\* C13: edit, describe and tag started with a credential and an image path
\* that names no file have exited with status 1 and FileNotFound without a
\* remote call; started without a credential they have exited with
\* NotAuthenticated, whether the file exists or not.
C13_FileNotFoundBeforeRemote ==
    cmd \in GatedCommands =>
        /\ (LoggedIn(session) /\ opts.arg = "nofile") =>
              /\ pc = "exited"
              /\ exitCode = 1
              /\ outcome = "FileNotFound"
              /\ calls = NoCalls
        /\ ~LoggedIn(session) =>
              /\ pc = "exited"
              /\ exitCode = 1
              /\ outcome = "NotAuthenticated"
              /\ calls = NoCalls

C13_Witness ==
    /\ cmd \in GatedCommands
    /\ LoggedIn(session)
    /\ opts.arg = "nofile"
    /\ outcome = "FileNotFound"

----------------------------------------------------------------------------
(* Properties of the refresh loop and of the output of search *)

\* C14: a search never ends while its refresh loop stands at a file whose
\* embedding has failed: after the failure the loop has moved on to the next
\* file.
C14_Original ==
    ~(/\ cmd = "search"
      /\ pc = "exited"
      /\ fileIdx \in 1..Len(files)
      /\ files[fileIdx] \in run.failed)

\* C15: once search has ranked, the results printed are the first
\* min(5, n) of the n results, in their order; the n results are one per row
\* with an embedding, in non-increasing order of similarity; no result printed
\* has a lower similarity than one that is not printed.
C15_TopFiveOfFullRanking ==
    pc = "ranked" =>
        LET n == Len(results)
            k == IF n < 5 THEN n ELSE 5
        IN  /\ n = Cardinality({i \in 1..Len(index) : index[i].embedding # <<>>})
            /\ \A i, j \in 1..n :
                  i < j => SimLeq(results[j].similarity, results[i].similarity)
            /\ Len(shown) = k
            /\ \A i \in 1..k : shown[i] = results[i]
            /\ \A i \in 1..k : \A j \in (k + 1)..n :
                  SimLeq(results[j].similarity, shown[i].similarity)

C15_Witness ==
    /\ pc = "ranked"
    /\ Len(results) = 6
    /\ Len(shown) = 5
    /\ results[6].similarity # results[5].similarity
    /\ results[1].similarity # results[5].similarity

----------------------------------------------------------------------------
(* More properties of login *)

\* C16: the stored credential record changes in two steps only: the step of
\* a login in which a device.token response carrying data is handled, which
\* stores that data, and logout, which removes the record.  No other step of
\* any command, and no other end of a login, changes it.
C16_SessionChangesOnlyAtLoginAndLogout ==
    [][session' # session =>
          \/ /\ cmd = "login"
             /\ pc = "pollInFlight"
             /\ lastResp'.kind = "resp"
             /\ lastResp'.data # NoData
             /\ session' = lastResp'.data
             /\ tokenData' = lastResp'.data
          \/ /\ cmd' = "logout"
             /\ session' = NoSession]_vars

C16_Witness ==
    /\ cmd = "login"
    /\ pc = "exited"
    /\ outcome \in {"AccessDenied", "Expired", "PollError", "NetworkError"}
    /\ session = Token("tokA")

\* C17: once a device.token response with an error whose code is none of
\* authorization_pending, slow_down, access_denied, expired_token (an error
\* without a code included) has been handled, the process has exited with
\* status 1 and the poll error message, no timer is pending and no request
\* can be issued.
C17_OtherErrorsAreTerminal ==
    (/\ cmd = "login"
     /\ lastResp.kind = "resp"
     /\ lastResp.data = NoData
     /\ lastResp.error # NoError
     /\ lastResp.error.error \notin {"authorization_pending", "slow_down",
                                     "access_denied", "expired_token"}) =>
        /\ pc = "exited"
        /\ exitCode = 1
        /\ outcome = "PollError"
        /\ timerDue = -1
        /\ tokenData = NoData
        /\ ~ENABLED (Tick \/ PollFire \/ PollResponse)

C17_Witness ==
    /\ cmd = "login"
    /\ lastResp.error = Err("undefined")
    /\ slowDowns = 1
    /\ pc = "exited"

\* C18: once a device.token request has failed with an exception, the first
\* request included, the process has exited with status 1 and the network
\* error message, no timer is pending and no request can be issued: the
\* failed request is the last one.
C18_TransportFailureIsTerminal ==
    (cmd = "login" /\ lastResp.kind = "throw") =>
        /\ pc = "exited"
        /\ exitCode = 1
        /\ outcome = "NetworkError"
        /\ timerDue = -1
        /\ tokenData = NoData
        /\ ~ENABLED PollFire /\ ~ENABLED Tick /\ ~ENABLED PollAnswer(Thrown)

C18_Witness ==
    /\ cmd = "login"
    /\ lastResp = Thrown
    /\ calls["device.token"] = 1
    /\ pc = "exited"

----------------------------------------------------------------------------
(* Progress of the poll loop *)

Polling == cmd = "login" /\ pc \in {"pollWait", "pollInFlight"}
Terminal == cmd = "login" /\ pc \in {"getSession", "exited"} /\ timerDue = -1

\* C19: on a server that answers authorization_pending or slow_down to every
\* request, a login that has started to poll never leaves the poll loop and
\* never ends as expired, whatever expires_in was and however long it polls:
\* every wait is followed by a request and every request by another wait.
C19_NoClientSideDeadline ==
    /\ [][Polling => Polling']_vars
    /\ [](outcome # "Expired")
    /\ (pc = "pollWait") ~> (pc = "pollInFlight")
    /\ (pc = "pollInFlight") ~> (pc = "pollWait")

C19_Witness ==
    /\ Polling
    /\ pc = "pollInFlight"
    /\ expiresIn = 1
    /\ slowDowns = 2
    /\ calls["device.token"] >= 2

\* C20: on a server that sooner or later answers with a token, access_denied,
\* expired_token, another error or a failed request, and with timers that
\* fire when due, a login that polls reaches an end of the poll session with
\* no timer pending; from there no request is issued.
C20_PollSessionTerminates ==
    /\ Polling ~> Terminal
    /\ [][Terminal => pc' # "pollInFlight" /\ timerDue' = -1]_vars

C20_Witness ==
    /\ Terminal
    /\ pc = "exited"
    /\ lastResp.error = Err("expired_token")
    /\ slowDowns >= 1
    /\ calls["device.token"] >= 2

----------------------------------------------------------------------------
(* One poll at a time *)

\* C21: in a login a timer is pending only while the process waits to poll
\* and never while a device.token request is in flight; a timer is armed only
\* by the step that starts the one poll session of the login (the device.code
\* answer, before any device.token request) or by the step that has handled
\* the response of the request in flight; and a request is issued only by the
\* timer that was pending, once it is due, which leaves no timer pending.
C21_OnePollAtATime ==
    [][cmd = "login" =>
          /\ timerDue >= 0 => pc = "pollWait"
          /\ pc = "pollInFlight" => timerDue = -1
          /\ (pc # "pollWait" /\ pc' = "pollWait") =>
                \/ pc = "deviceCode" /\ calls["device.token"] = 0
                \/ pc = "pollInFlight" /\ lastResp' # NoResp /\ now' = 0
          /\ (pc # "pollInFlight" /\ pc' = "pollInFlight") =>
                /\ pc = "pollWait"
                /\ now >= timerDue
                /\ timerDue' = -1]_vars

C21_Witness ==
    /\ cmd = "login"
    /\ pc = "pollInFlight"
    /\ timerDue = -1
    /\ calls["device.token"] = 2

----------------------------------------------------------------------------
(* The index at the end of a search *)

\* C22: when a search that passed the credential check has ended, every
\* path of the index is one of the image files its scan found, also when
\* the scan found none.
C22_Original ==
    (cmd = "search" /\ pc = "exited" /\ outcome # "NotAuthenticated") =>
        IndexPaths(index) \subseteq Range(files)

\* C23: the step in which the embedding call of a file fails leaves the
\* index without a row for that file, whether the file had a row or not.
C23_Original ==
    [][(cmd = "search" /\ pc = "embedding" /\ run'.failed # run.failed) =>
          ~HasRow(index', files[fileIdx])]_vars

\* C25: when a search has ended, the Database handle it opened is closed.
C25_Original ==
    (cmd = "search" /\ pc = "exited") => ~dbOpen

----------------------------------------------------------------------------
(* The refresh loop, file by file *)

\* A turn of the refresh loop on a file that fs.statSync finds.
LoopTurn ==
    /\ cmd = "search"
    /\ pc = "loop"
    /\ dir' = dir
    /\ fileIdx \in 1..Len(files)
    /\ dir[files[fileIdx]] # 0

StoredMtimeIs(idx, p, m) == \E i \in 1..Len(idx) : idx[i].path = p /\ idx[i].mtime = m

InFlight == {f \in ImageNames : run.embedCalls[f] > 0} \ (run.upserted \cup run.failed)

\* C26: in a search at most one image embedding call is in flight, and none
\* while the loop is between two files or the query is being embedded; the
\* call for a file is issued from the loop only when every file before it is
\* settled (hit, failed, or upserted with its row in the index); the query
\* embedding call is issued only when the loop has passed every file.
C26_SequentialIndexing ==
    [][cmd = "search" =>
          /\ Cardinality(InFlight) <= 1
          /\ pc = "embedding" => InFlight = {files[fileIdx]}
          /\ pc \in {"warmup", "loop", "query"} => InFlight = {}
          /\ (pc # "embedding" /\ pc' = "embedding") =>
                /\ pc = "loop"
                /\ InFlight = {}
                /\ \A i \in 1..(fileIdx - 1) :
                      \/ run.embedCalls[files[i]] = 0
                      \/ files[i] \in run.failed
                      \/ files[i] \in run.upserted /\ HasRow(index, files[i])
          /\ (pc # "query" /\ pc' = "query") =>
                /\ pc = "loop"
                /\ fileIdx > Len(files)
                /\ fileIdx' = fileIdx
                /\ run'.loopDone
                /\ InFlight = {}]_vars

C26_Witness ==
    /\ cmd = "search"
    /\ pc = "embedding"
    /\ fileIdx = 2
    /\ files[1] \in run.upserted
    /\ HasRow(index, files[1])
    /\ InFlight = {files[2]}

----------------------------------------------------------------------------
(* The cache and the embedding mode *)

\* C27: in a directory that does not change, a search run under another
\* --mode than the run before it makes no embedding call for the files that
\* run stored and stores nothing for them; when it prints results, each of
\* those files is ranked with the embedding stored by the earlier run against
\* the query embedding of this run.
C27_CacheIgnoresMode ==
    (cmd = "search" /\ prev.tracked /\ prev.mode # opts.mode) =>
        \A f \in prev.upserted :
            /\ run.embedCalls[f] = 0
            /\ f \notin run.upserted
            /\ HasRow(index, f)
            /\ GetFile(index, f).mtime = dir[f]
            /\ outcome = "Results" =>
                  \E i \in 1..Len(results) :
                      /\ results[i].file = f
                      /\ results[i].similarity =
                            cosineSimilarity(queryEmbedding,
                                             JSONParse(GetFile(index, f).embedding))

C27_Witness ==
    /\ cmd = "search"
    /\ prev.mode = "api"
    /\ opts.mode = "local"
    /\ prev.upserted # {}
    /\ run.upserted = {}
    /\ outcome = "Results"
    /\ Len(results) >= 1

----------------------------------------------------------------------------
(* The ends of login *)

\* C28: while login waits for the answer to its re-login question, the
\* answers no and cancel can only end it with status 0, without a device.code
\* or device.token request and with the stored record as it was; and a login
\* that polls leaves the poll loop only in the step that handles the answer
\* to the request in flight, a response with data or an error other than
\* authorization_pending and slow_down, or a failed request.
C28_CancelOnlyBeforePolling ==
    [][/\ (cmd = "login" /\ pc = "confirm") =>
             \A a \in {"no", "cancel"} :
                 /\ ENABLED LoginAnswer(a)
                 /\ ~ENABLED (/\ LoginAnswer(a)
                              /\ ~(/\ pc' = "exited"
                                   /\ exitCode' = 0
                                   /\ outcome' = "LoginCancelled"
                                   /\ calls' = NoCalls
                                   /\ session' = session))
       /\ (Polling /\ ~Polling') =>
             /\ pc = "pollInFlight"
             /\ lastResp' \in FinalResponses
             /\ cmd' = "login"]_vars

C28_Witness ==
    /\ cmd = "login"
    /\ pc = "exited"
    /\ outcome = "LoginCancelled"
    /\ exitCode = 0
    /\ calls = NoCalls
    /\ session # NoSession

\* C29: logout ends with status 0 and nothing stored, whatever was stored;
\* while nothing is stored, edit, describe, tag and search end at once with
\* status 1 and NotAuthenticated, without a remote call; and what is stored
\* stops being nothing only in the step of a login that handles a
\* device.token response with data.
C29_LoggedOutUntilLogin ==
    [][/\ (Idle /\ cmd' = "logout") =>
             /\ session' = NoSession
             /\ pc' = "exited"
             /\ exitCode' = 0
       /\ (Idle /\ session = NoSession /\ cmd' \in GatedCommands \cup {"search"}) =>
             /\ pc' = "exited"
             /\ exitCode' = 1
             /\ outcome' = "NotAuthenticated"
             /\ calls' = NoCalls
             /\ session' = NoSession
       /\ (session = NoSession /\ session' # NoSession) =>
             /\ cmd = "login"
             /\ pc = "pollInFlight"
             /\ lastResp'.data = session'
             /\ pc' = "getSession"]_vars

C29_Witness ==
    /\ cmd = "logout"
    /\ pc = "exited"
    /\ outcome = "LoggedOut"
    /\ exitCode = 0
    /\ session = NoSession

\* C30: while login waits for the answer of device.code, an answer with an
\* error, an answer without data and a rejected request can each only end it
\* with status 1, with no timer armed, no device.token request issued and the
\* stored record as it was; and a login that has so ended has issued no
\* device.token request.
C30_DeviceCodeFailureEndsLogin ==
    [][/\ (cmd = "login" /\ pc = "deviceCode") =>
             \A r \in {c \in CodeResponses : c.kind # "data"} :
                 /\ ENABLED LoginCodeAnswer(r)
                 /\ ~ENABLED (/\ LoginCodeAnswer(r)
                              /\ ~(/\ pc' = "exited"
                                   /\ exitCode' = 1
                                   /\ outcome' \in {"AuthRequestError", "Unexpected"}
                                   /\ timerDue' = -1
                                   /\ calls' = calls
                                   /\ session' = session))
       /\ (cmd = "login" /\ outcome = "AuthRequestError") =>
             /\ pc = "exited"
             /\ calls["device.token"] = 0
             /\ tokenData = NoData
             /\ lastResp = NoResp]_vars

C30_Witness ==
    /\ cmd = "login"
    /\ pc = "exited"
    /\ outcome = "AuthRequestError"
    /\ exitCode = 1
    /\ calls["device.token"] = 0
    /\ session = Token("tokA")

----------------------------------------------------------------------------
(* No retries *)

\* C31: a search makes at most one embedding call per image file and issues
\* the embedding call of the query at most once (the local mode makes one
\* more text call, the warm-up, before the loop); a login issues device.code
\* at most once; edit, describe and tag issue their remote call at most once,
\* and when it has failed the process has exited with status 1.
C31_NothingIsRetried ==
    [][/\ cmd = "search" =>
             /\ \A f \in ImageNames : run.embedCalls[f] <= 1
             /\ calls["embed.text"] <= (IF opts.mode = "local" THEN 2 ELSE 1)
             /\ (pc # "query" /\ pc' = "query") => (~run.loopDone /\ run'.loopDone)
             /\ run.loopDone => pc \in {"query", "draining", "exited"}
       /\ cmd = "login" => calls["device.code"] <= 1
       /\ cmd \in GatedCommands =>
             /\ calls[cmd] <= 1
             /\ outcome \in {"RemoteApiError", "InsufficientCredits"} =>
                   (pc = "exited" /\ exitCode = 1)
       /\ (cmd \in GatedCommands /\ pc = "remote" /\ pc' # "remote") =>
             (calls' = calls /\ pc' \in {"exited", "draining"})]_vars

C31_Witness ==
    /\ cmd = "search"
    /\ run.loopDone
    /\ run.failed # {}
    /\ \A f \in run.failed : run.embedCalls[f] = 1
    /\ outcome = "SearchFailed"
    /\ calls["embed.text"] = 1

----------------------------------------------------------------------------
(* The empty poll response, and the end of a successful poll *)

EmptyResponse == Resp(NoData, NoError)

\* C32: the step that handles a device.token response with neither data nor
\* error leaves the process running and waiting, the polling interval as it
\* was, and one timer armed, due after that interval; nothing is stored and
\* nothing returned; and as long as that response is the last one handled the
\* login stays in the poll loop.
C32_EmptyResponseLikePending ==
    [][/\ (cmd = "login" /\ pc = "pollInFlight" /\ lastResp' = EmptyResponse) =>
             /\ pc' = "pollWait"
             /\ exitCode' = -1
             /\ pollingInterval' = pollingInterval
             /\ slowDowns' = slowDowns
             /\ timerDue' = pollingInterval
             /\ now' = 0
             /\ session' = session
             /\ tokenData' = NoData
             /\ calls' = calls
       /\ (cmd = "login" /\ lastResp = EmptyResponse) =>
             /\ Polling
             /\ pc = "pollWait" => timerDue = pollingInterval]_vars

C32_Witness ==
    /\ cmd = "login"
    /\ lastResp = EmptyResponse
    /\ pc = "pollInFlight"
    /\ slowDowns = 1
    /\ pollingInterval = initialInterval + 5

\* a login whose poll was resolved and whose getSession call was rejected
SessionFetchFailed ==
    /\ cmd = "login"
    /\ pc = "exited"
    /\ outcome = "Unexpected"
    /\ tokenData # NoData

----------------------------------------------------------------------------
(* The mtime of an entry *)

\* C34: the turn that issues the embedding call for a file has read the
\* file's mtime and its bytes in one step, and keeps that mtime while the
\* call is awaited, whatever happens to the file; the upsert stores that
\* mtime, so when the file's mtime has changed since, the row written is not
\* a hit for the file as it is now; and a turn of the refresh loop on a file
\* whose row holds another mtime than the file's never passes it as a hit.
C34_StoredMtimeIsTheOneRead ==
    [][cmd = "search" =>
          /\ (pc = "loop" /\ pc' = "embedding") =>
                /\ dir' = dir
                /\ run'.mtime = dir[files[fileIdx]]
                /\ run'.mtime # 0
          /\ (pc = "embedding" /\ pc' = "embedding") =>
                /\ run'.mtime = run.mtime
                /\ fileIdx' = fileIdx
                /\ index' = index
          /\ (pc = "embedding" /\ run'.upserted # run.upserted) =>
                LET file == files[fileIdx] IN
                /\ run'.upserted = run.upserted \cup {file}
                /\ GetFile(index', file).mtime = run.mtime
                /\ dir[file] # run.mtime => ~CacheHit(index', file, dir'[file])
          /\ (LoopTurn /\ HasRow(index, files[fileIdx])
                /\ GetFile(index, files[fileIdx]).mtime # dir[files[fileIdx]]) =>
                \/ /\ pc' = "embedding"
                   /\ run'.mtime = dir[files[fileIdx]]
                \/ files[fileIdx] \in run'.failed]_vars

C34_Witness ==
    \E f \in ImageNames :
        /\ cmd = "search"
        /\ f \in run.upserted
        /\ f \in run.replaced
        /\ dir[f] = 2
        /\ HasRow(index, f)
        /\ GetFile(index, f).mtime = 1
        /\ ~CacheHit(index, f, dir[f])

----------------------------------------------------------------------------
(* The hint timer of search *)

\* C35 as stated: in a search, whenever the 8 s hint timer can fire, a
\* spinner was created, so the callback never reads a spinner that is absent.
C35_Original ==
    (cmd = "search" /\ ENABLED HintFire) => spinnerState # "none"

====
